---- MODULE Spec2Model ----
(***************************************************************************)
(* Model of the palettize request handler of src/src/main.rs               *)
(* (do_palettize): the multipart field loop, the validation of the         *)
(* "image" and "palette" fields, the palette extraction loop, the          *)
(* nearest-colour remap loop and the PNG response.                         *)
(*                                                                         *)
(* A Color is a 4-tuple <<r, g, b, a>> of 8-bit channel values.  A grid is *)
(* a record [width, height, data] whose data is the row-major pixel        *)
(* sequence, pixel (x, y) sitting at index y * width + x + 1.  The palette *)
(* (a BTreeSet<[u8; 4]>) is the strictly ascending sequence of its         *)
(* members, which is the order its iterator yields them in.                *)
(***************************************************************************)
EXTENDS Integers, Sequences, FiniteSets

VARIABLES
    pc,           \* position in do_palettize
    form,         \* number of fields the multipart stream still holds
    images,       \* HashMap name -> decode result (line 142)
    the_image,    \* the target grid, mutated in place (line 170)
    the_palette,  \* the palette-source grid (line 183)
    colors,       \* the BTreeSet of palette colours (line 190)
    x, y,         \* loop counters of the remap loop (lines 196, 198)
    response,     \* the response returned, NoResponse until then
    uploaded,     \* history: last decode result received under each name
    formEnd       \* history: how the field loop ended

vars == <<pc, form, images, the_image, the_palette, colors, x, y, response,
          uploaded, formEnd>>

-----------------------------------------------------------------------------
(* Bounds of the model *)

MaxPixels == 2

MaxFields == 3

(* Sample colours of target images: black (translucent), a colour that also *)
(* occurs in palette sources, and a colour 255 or more away from every      *)
(* palette-source colour.                                                   *)
TargetColors == { <<0, 0, 0, 7>>, <<100, 0, 0, 255>>, <<255, 100, 0, 128>> }

(* Sample colours of palette-source images; two differ only in alpha. *)
SourceColors == { <<0, 100, 0, 255>>, <<100, 0, 0, 255>>, <<100, 0, 0, 7>> }

Names == {"image", "palette", "other"}

-----------------------------------------------------------------------------
(* Grids and decode results *)

Shapes == { s \in (0..MaxPixels) \X (0..MaxPixels) : s[1] * s[2] <= MaxPixels }

Grids(C) ==
    UNION { { [width |-> s[1], height |-> s[2], data |-> d] :
                d \in [1..(s[1] * s[2]) -> C] } : s \in Shapes }

NoGrid == [width |-> 0, height |-> 0, data |-> <<>>]

Ok(g) == [ok |-> TRUE, img |-> g]

Err == [ok |-> FALSE, img |-> NoGrid]

(* What image::load_from_memory can return for the bytes of a field. *)
Payloads(name) ==
    IF name = "image" THEN {Err} \cup { Ok(g) : g \in Grids(TargetColors) }
    ELSE IF name = "palette" THEN {Err} \cup { Ok(g) : g \in Grids(SourceColors) }
    ELSE {Err, Ok([width |-> 1, height |-> 1, data |-> << <<0, 0, 0, 255>> >>])}

NoImages == [n \in Names |-> <<>>]

MapInsertFirstWins(m, name, result) ==
    IF m[name] = <<>> THEN [m EXCEPT ![name] = <<result>>] ELSE m

MapInsert(m, name, result) == [m EXCEPT ![name] = <<result>>]

MapRemove(m, name) == [m EXCEPT ![name] = <<>>]

NoResponse == [status |-> 0, content_type |-> "", body |-> <<>>]

BadRequest(msg) == [status |-> 400, content_type |-> "", body |-> <<"text", msg>>]

ServerError == [status |-> 500, content_type |-> "text/html", body |-> <<"html", "error">>]

PngResponse(g) == [status |-> 200, content_type |-> "image/png", body |-> <<"png", g>>]

GetPixel(g, px, py) == g.data[py * g.width + px + 1]

PutPixel(g, px, py, c) == [g EXCEPT !.data[py * g.width + px + 1] = c]

-----------------------------------------------------------------------------
(* Palette extraction (lines 190-193) *)

ColorLess(c, d) ==
    \/ c[1] < d[1]
    \/ c[1] = d[1] /\ c[2] < d[2]
    \/ c[1] = d[1] /\ c[2] = d[2] /\ c[3] < d[3]
    \/ c[1] = d[1] /\ c[2] = d[2] /\ c[3] = d[3] /\ c[4] < d[4]

RECURSIVE SetInsert(_, _)
SetInsert(s, c) ==
    IF s = <<>> THEN <<c>>
    ELSE IF c = Head(s) THEN s
    ELSE IF ColorLess(c, Head(s)) THEN <<c>> \o s
    ELSE <<Head(s)>> \o SetInsert(Tail(s), c)

OpaqueMax == 255

PaletteEntryKeepAlpha(color) == color

PaletteEntry(color) == <<color[1], color[2], color[3], OpaqueMax>>

RECURSIVE ExtractFrom(_, _, _)
ExtractFrom(g, i, acc) ==
    IF i > g.width * g.height THEN acc
    ELSE ExtractFrom(g, i + 1, SetInsert(acc, PaletteEntry(g.data[i])))

-----------------------------------------------------------------------------
(* Nearest-colour scan (lines 200-211) *)

SignedDiff(a, b) == a - b

AbsDiff(a, b) == IF a > b THEN a - b ELSE b - a

Diff(color, palette_color) ==
      AbsDiff(color[1], palette_color[1])
    + AbsDiff(color[2], palette_color[2])
    + AbsDiff(color[3], palette_color[3])

InitMinDiff == 255

InitMinColorKeep(color) == color

InitMinColor(color) == <<0, 0, 0, color[4]>>

RECURSIVE ScanFrom(_, _, _, _, _)
ScanFrom(color, cs, i, min_diff, min_color) ==
    IF i > Len(cs) THEN min_color
    ELSE LET diff == Diff(color, cs[i]) IN
         IF diff < min_diff
         THEN ScanFrom(color, cs, i + 1, diff, cs[i])
         ELSE ScanFrom(color, cs, i + 1, min_diff, min_color)

SetAlphaKeep(min_color, color) == min_color

SetAlpha(min_color, color) == <<min_color[1], min_color[2], min_color[3], color[4]>>

MatchPixel(color, cs) ==
    SetAlpha(ScanFrom(color, cs, 1, InitMinDiff, InitMinColor(color)), color)

-----------------------------------------------------------------------------
(* The handler *)

Init ==
    /\ pc = "read"
    /\ form \in 0..MaxFields
    /\ images = NoImages
    /\ the_image = NoGrid
    /\ the_palette = NoGrid
    /\ colors = <<>>
    /\ x = 0
    /\ y = 0
    /\ response = NoResponse
    /\ uploaded = NoImages
    /\ formEnd = "pending"

Return(r) ==
    /\ pc' = "done"
    /\ response' = r

(* Lines 144-162, a named field: decode it and store the result. *)
ReadField ==
    /\ pc = "read"
    /\ form > 0
    /\ \E name \in Names : \E result \in Payloads(name) :
          /\ images' = MapInsert(images, name, result)
          /\ uploaded' = [uploaded EXCEPT ![name] = <<result>>]
    /\ form' = form - 1
    /\ UNCHANGED <<pc, the_image, the_palette, colors, x, y, response, formEnd>>

(* Lines 145-151: a field without a name ends the request. *)
ReadUnnamed ==
    /\ pc = "read"
    /\ form > 0
    /\ form' = form - 1
    /\ formEnd' = "unnamed"
    /\ Return(BadRequest("need a name"))
    /\ UNCHANGED <<images, the_image, the_palette, colors, x, y, uploaded>>

(* Lines 144, 155, 157: `?` on a transport error, rendered by AppError. *)
ReadError ==
    /\ pc = "read"
    /\ form > 0
    /\ form' = form - 1
    /\ formEnd' = "error"
    /\ Return(ServerError)
    /\ UNCHANGED <<images, the_image, the_palette, colors, x, y, uploaded>>

(* Line 144: next_field yields None. *)
EndOfForm ==
    /\ pc = "read"
    /\ form = 0
    /\ formEnd' = "eof"
    /\ pc' = "image"
    /\ UNCHANGED <<form, images, the_image, the_palette, colors, x, y, response,
                   uploaded>>

(* Lines 164-169 *)
ImageMissing ==
    /\ pc = "image"
    /\ images["image"] = <<>>
    /\ Return(BadRequest("need an image"))
    /\ UNCHANGED <<form, images, the_image, the_palette, colors, x, y, uploaded,
                   formEnd>>

(* Lines 164, 170-175 *)
ImageInvalid ==
    /\ pc = "image"
    /\ images["image"] # <<>>
    /\ ~images["image"][1].ok
    /\ images' = MapRemove(images, "image")
    /\ Return(BadRequest("image is invalid"))
    /\ UNCHANGED <<form, the_image, the_palette, colors, x, y, uploaded, formEnd>>

(* Lines 164, 170 *)
ImageOk ==
    /\ pc = "image"
    /\ images["image"] # <<>>
    /\ images["image"][1].ok
    /\ images' = MapRemove(images, "image")
    /\ the_image' = images["image"][1].img
    /\ pc' = "palette"
    /\ UNCHANGED <<form, the_palette, colors, x, y, response, uploaded, formEnd>>

PaletteMissingIgnored ==
    /\ pc = "palette"
    /\ images["palette"] = <<>>
    /\ the_palette' = NoGrid
    /\ pc' = "extract"
    /\ UNCHANGED <<form, images, the_image, colors, x, y, response, uploaded,
                   formEnd>>

(* Lines 177-182 *)
PaletteMissing ==
    /\ pc = "palette"
    /\ images["palette"] = <<>>
    /\ Return(BadRequest("need a palette"))
    /\ UNCHANGED <<form, images, the_image, the_palette, colors, x, y, uploaded,
                   formEnd>>

(* Lines 177, 183-188 *)
PaletteInvalid ==
    /\ pc = "palette"
    /\ images["palette"] # <<>>
    /\ ~images["palette"][1].ok
    /\ images' = MapRemove(images, "palette")
    /\ Return(BadRequest("palette is invalid"))
    /\ UNCHANGED <<form, the_image, the_palette, colors, x, y, uploaded, formEnd>>

(* Lines 177, 183 *)
PaletteOk ==
    /\ pc = "palette"
    /\ images["palette"] # <<>>
    /\ images["palette"][1].ok
    /\ images' = MapRemove(images, "palette")
    /\ the_palette' = images["palette"][1].img
    /\ pc' = "extract"
    /\ UNCHANGED <<form, the_image, colors, x, y, response, uploaded, formEnd>>

(* Lines 190-194: the whole extraction loop. *)
ExtractPalette ==
    /\ pc = "extract"
    /\ colors' = ExtractFrom(the_palette, 1, <<>>)
    /\ pc' = "remap"
    /\ UNCHANGED <<form, images, the_image, the_palette, x, y, response, uploaded,
                   formEnd>>

(* Lines 199-212: one iteration of the inner loop. *)
RemapPixel ==
    /\ pc = "remap"
    /\ y < the_image.height
    /\ x < the_image.width
    /\ the_image' = PutPixel(the_image, x, y, MatchPixel(GetPixel(the_image, x, y), colors))
    /\ x' = x + 1
    /\ UNCHANGED <<pc, form, images, the_palette, colors, y, response, uploaded,
                   formEnd>>

(* Lines 196-198: the inner loop is exhausted, the outer loop advances. *)
RemapNextRow ==
    /\ pc = "remap"
    /\ y < the_image.height
    /\ x >= the_image.width
    /\ y' = y + 1
    /\ x' = 0
    /\ UNCHANGED <<pc, form, images, the_image, the_palette, colors, response,
                   uploaded, formEnd>>

(* Line 196: the outer loop is exhausted. *)
RemapDone ==
    /\ pc = "remap"
    /\ y >= the_image.height
    /\ pc' = "encode"
    /\ UNCHANGED <<form, images, the_image, the_palette, colors, x, y, response,
                   uploaded, formEnd>>

(* Lines 216-222 *)
EncodeOk ==
    /\ pc = "encode"
    /\ Return(PngResponse(the_image))
    /\ UNCHANGED <<form, images, the_image, the_palette, colors, x, y, uploaded,
                   formEnd>>

(* Line 217: `?` on an encoder failure, rendered by AppError. *)
EncodeFail ==
    /\ pc = "encode"
    /\ Return(ServerError)
    /\ UNCHANGED <<form, images, the_image, the_palette, colors, x, y, uploaded,
                   formEnd>>

Next ==
    \/ ReadField
    \/ ReadUnnamed
    \/ ReadError
    \/ EndOfForm
    \/ ImageMissing
    \/ ImageInvalid
    \/ ImageOk
    \/ PaletteMissing
    \/ PaletteInvalid
    \/ PaletteOk
    \/ ExtractPalette
    \/ RemapPixel
    \/ RemapNextRow
    \/ RemapDone
    \/ EncodeOk
    \/ EncodeFail

Spec == Init /\ [][Next]_vars

-----------------------------------------------------------------------------
(* Vocabulary of the properties *)

Range(s) == { s[i] : i \in 1..Len(s) }

RGB(c) == <<c[1], c[2], c[3]>>

NPixels(g) == g.width * g.height

PixelSet(g) == { g.data[i] : i \in 1..NPixels(g) }

(* The request was read to its end and both required fields decoded. *)
Accepted ==
    /\ formEnd = "eof"
    /\ uploaded["image"] # <<>> /\ uploaded["image"][1].ok
    /\ uploaded["palette"] # <<>> /\ uploaded["palette"][1].ok

InGrid == uploaded["image"][1].img

SrcGrid == uploaded["palette"][1].img

Replied200 == pc = "done" /\ response.status = 200

OutGrid == response.body[2]

(* The remap loop of lines 196-214 applied to a whole grid. *)
RemapGrid(g, cs) ==
    [g EXCEPT !.data = [i \in 1..NPixels(g) |-> MatchPixel(g.data[i], cs)]]

IsNearest(p, c, cs) == \A q \in Range(cs) : Diff(c, p) <= Diff(c, q)

-----------------------------------------------------------------------------
(* C1 - Palette closure: with a non-empty palette, every pixel of the      *)
(* image returned has the (R,G,B) of some palette member.                  *)
C1_PaletteClosure ==
    (Replied200 /\ colors # <<>>) =>
        \A i \in 1..NPixels(OutGrid) :
            \E p \in Range(colors) : RGB(OutGrid.data[i]) = RGB(p)

(* C2 - Nearest match: with a non-empty palette, the colour written for a  *)
(* pixel is a palette member at minimal Manhattan RGB distance from the    *)
(* pixel's input colour.                                                   *)
C2_NearestMatch ==
    (Replied200 /\ colors # <<>>) =>
        \A i \in 1..NPixels(InGrid) :
            \E p \in Range(colors) :
                /\ RGB(OutGrid.data[i]) = RGB(p)
                /\ IsNearest(p, InGrid.data[i], colors)

(* C3 - Tie-break order: when two palette colours are equidistant from a   *)
(* pixel and nearest to it, the colour written is the one that comes first *)
(* in ascending (R,G,B,A) order.                                           *)
C3_TieBreak ==
    Replied200 =>
        \A i \in 1..NPixels(InGrid) :
            \A p, q \in Range(colors) :
                ( /\ ColorLess(p, q)
                  /\ Diff(InGrid.data[i], p) = Diff(InGrid.data[i], q)
                  /\ IsNearest(p, InGrid.data[i], colors)
                  /\ \A r \in Range(colors) :
                        (IsNearest(r, InGrid.data[i], colors) /\ r # p) => ColorLess(p, r) )
                => RGB(OutGrid.data[i]) = RGB(p)

(* C4 - Alpha preservation: every pixel of the image returned has the      *)
(* alpha its input pixel had, whatever the palette; the grid keeps its     *)
(* dimensions.                                                             *)
C4_AlphaPreserved ==
    Replied200 =>
        /\ OutGrid.width = InGrid.width
        /\ OutGrid.height = InGrid.height
        /\ \A i \in 1..NPixels(InGrid) : OutGrid.data[i][4] = InGrid.data[i][4]

(* a translucent pixel was recoloured from a non-empty (opaque) palette *)
C4_Witness ==
    /\ Replied200
    /\ colors # <<>>
    /\ \E i \in 1..NPixels(InGrid) :
          /\ InGrid.data[i][4] # OpaqueMax
          /\ RGB(OutGrid.data[i]) # RGB(InGrid.data[i])

(* C5 - Self-mapping: when every input pixel's (R,G,B) is the (R,G,B) of a *)
(* palette member, the image returned equals the input in every (R,G,B).   *)
C5_SelfMapping ==
    Replied200 =>
        ( (\A i \in 1..NPixels(InGrid) :
              \E p \in Range(colors) : RGB(InGrid.data[i]) = RGB(p))
          => \A i \in 1..NPixels(InGrid) :
                RGB(OutGrid.data[i]) = RGB(InGrid.data[i]) )

(* a non-black pixel found itself in a palette of several colours *)
C5_Witness ==
    /\ Replied200
    /\ Len(colors) >= 2
    /\ NPixels(InGrid) > 0
    /\ \A i \in 1..NPixels(InGrid) :
          \E p \in Range(colors) : RGB(InGrid.data[i]) = RGB(p)
    /\ \E i \in 1..NPixels(InGrid) : RGB(InGrid.data[i]) # <<0, 0, 0>>

(* C6 - Empty palette fallback: with an empty palette the remap loop runs  *)
(* to its end (no error is raised by it) and leaves every pixel black with *)
(* its input alpha, in the grid handed to the encoder and in the image     *)
(* returned.                                                               *)
C6_EmptyPaletteBlack ==
    /\ (Accepted /\ NPixels(SrcGrid) = 0 /\ pc = "done") =>
            response.status # 400
    /\ (pc = "encode" /\ colors = <<>>) =>
            \A i \in 1..NPixels(InGrid) :
                the_image.data[i] = <<0, 0, 0, InGrid.data[i][4]>>
    /\ (Replied200 /\ colors = <<>>) =>
            \A i \in 1..NPixels(InGrid) :
                OutGrid.data[i] = <<0, 0, 0, InGrid.data[i][4]>>

(* a non-black pixel was remapped with an empty palette *)
C6_Witness ==
    /\ Replied200
    /\ colors = <<>>
    /\ \E i \in 1..NPixels(InGrid) : RGB(InGrid.data[i]) # <<0, 0, 0>>

(* C7 - Palette extraction: once extracted, the palette holds exactly one  *)
(* entry (r,g,b,255) per distinct (r,g,b) of the source grid and nothing   *)
(* else, an empty grid gives an empty palette, and the source grid is      *)
(* unchanged.                                                              *)
C7_Extraction ==
    (pc \in {"remap", "encode"} \/ (pc = "done" /\ Accepted)) =>
        /\ Range(colors) = { <<c[1], c[2], c[3], 255>> : c \in PixelSet(SrcGrid) }
        /\ Len(colors) = Cardinality({ RGB(c) : c \in PixelSet(SrcGrid) })
        /\ \A c \in Range(colors) : c[4] = 255
        /\ (NPixels(SrcGrid) = 0 => colors = <<>>)
        /\ the_palette = SrcGrid

(* two source pixels differing only in alpha became one palette entry *)
C7_Witness ==
    /\ pc = "remap"
    /\ Len(colors) = 1
    /\ \E i, j \in 1..NPixels(SrcGrid) :
          /\ SrcGrid.data[i] # SrcGrid.data[j]
          /\ RGB(SrcGrid.data[i]) = RGB(SrcGrid.data[j])

(* The fields were read to the end without a transport error, and a        *)
(* required field is missing or its stored decode result is an error.      *)
Rejectable ==
    /\ formEnd = "eof"
    /\ \/ uploaded["image"] = <<>>
       \/ uploaded["palette"] = <<>>
       \/ ~uploaded["image"][1].ok
       \/ ~uploaded["palette"][1].ok

(* C8 - Boundary rejection: when all fields are named and read without a   *)
(* transport error and "image" or "palette" is missing or undecodable, the *)
(* handler never reaches extraction, remapping or encoding, and it replies *)
(* 400 with a text body, the palette still empty and the target grid       *)
(* either not bound or untouched.                                          *)
C8_BoundaryRejection ==
    Rejectable =>
        /\ pc \in {"image", "palette", "done"}
        /\ colors = <<>>
        /\ x = 0 /\ y = 0
        /\ the_image = NoGrid \/ the_image = uploaded["image"][1].img
        /\ pc = "done" =>
              /\ response.status = 400
              /\ response.body[1] = "text"
              /\ response.content_type # "image/png"

(* a valid target image was bound, then the palette was missing or invalid *)
C8_Witness ==
    /\ Rejectable
    /\ pc = "done"
    /\ NPixels(the_image) > 0
    /\ response.body \in { <<"text", "need a palette">> }

(* C9 - Remap idempotence: remapping the returned image again with the     *)
(* same palette changes no pixel.                                          *)
C9_RemapIdempotent ==
    Replied200 => RemapGrid(OutGrid, colors) = OutGrid

(* C10 (as claimed) - whenever the upload holds a decodable "image" and a  *)
(* decodable "palette", the reply is 200 image/png with the remap result,  *)
(* whatever other fields, unnamed ones included, the upload holds          *)
(* (transport and encoder failures set aside).                             *)
C10_ExtraFieldsIgnored ==
    ( /\ pc = "done"
      /\ formEnd # "error"
      /\ response # ServerError
      /\ uploaded["image"] # <<>> /\ uploaded["image"][1].ok
      /\ uploaded["palette"] # <<>> /\ uploaded["palette"][1].ok )
    => response = PngResponse(RemapGrid(InGrid, ExtractFrom(SrcGrid, 1, <<>>)))

(* C10 (amended) - when every field is named and read without a transport  *)
(* error, the last "image" field and the last "palette" field received     *)
(* both decode, and the encoder does not fail, the reply is 200 image/png  *)
(* with the remap of that image by that palette, whatever other-named      *)
(* fields the upload holds; an unnamed field is answered 400.              *)
C10_NamedExtraFieldsIgnored ==
    /\ (pc = "done" /\ Accepted /\ response # ServerError) =>
            response = PngResponse(RemapGrid(InGrid, ExtractFrom(SrcGrid, 1, <<>>)))
    /\ (pc = "done" /\ formEnd = "unnamed") =>
            response = BadRequest("need a name")

(* the upload also held an undecodable field under another name *)
C10_Witness ==
    /\ Replied200
    /\ images["other"] = <<Err>>
    /\ NPixels(InGrid) > 0
    /\ form = 0

====
